---- MODULE Spec2Model ----
(***************************************************************************)
(* Appointment routes of the dental clinic API (src/server.js, second      *)
(* router) over the Appointment collection (src/models/Appointment.js).    *)
(*                                                                         *)
(* Strings that the code takes apart (date, time) are sequences of         *)
(* one-character strings; the other request fields are plain strings, ""   *)
(* standing for an absent (falsy) field.  Instants are whole minutes since *)
(* the epoch (UTC), so the clock has no seconds.                           *)
(*                                                                         *)
(*   store     the Appointment collection, in insertion order; the         *)
(*             appointmentId (a uuid) of a document is its position        *)
(*   now       the server's clock (new Date()), a UTC minute               *)
(*   tz        the server's offset east of UTC, in minutes                 *)
(*   last      the request being answered and its response, NoResponse     *)
(*             between two requests                                        *)
(*   inflight  the POST /book requests suspended at their conflict query,  *)
(*             each with the answer it will resume with                    *)
(*                                                                         *)
(* Dates are parsed as Node's Date does: a date-only ISO string is UTC     *)
(* midnight, a date-time without offset is local time, and a string that   *)
(* is neither is an Invalid Date.                                          *)
(***************************************************************************)
EXTENDS Integers, Sequences, FiniteSets, TLC

VARIABLES store, now, tz, last, inflight

vars == <<store, now, tz, last, inflight>>

-----------------------------------------------------------------------------
(* Bounds of the model *)

MaxAppts == 2

MaxInflight == 2

-----------------------------------------------------------------------------
(* JavaScript values *)

\* the time value of an Invalid Date, and the result of a failed parseInt
NaN == 0 - 1

\* an absent array element or request field (of a string modelled as a sequence)
Undefined == <<"undefined">>

\* an absent notes field of a request body
NoNotes == "<undefined>"

Digits == {"0", "1", "2", "3", "4", "5", "6", "7", "8", "9"}

DigitVal(c) ==
    CASE c = "0" -> 0 [] c = "1" -> 1 [] c = "2" -> 2 [] c = "3" -> 3
      [] c = "4" -> 4 [] c = "5" -> 5 [] c = "6" -> 6 [] c = "7" -> 7
      [] c = "8" -> 8 [] c = "9" -> 9

\* a < b on time values: false as soon as one side is NaN
DateLess(a, b) == a # NaN /\ b # NaN /\ a < b

RECURSIVE DigitPrefix(_, _)
\* value of the longest prefix of digits of s, acc being the value so far
DigitPrefix(s, acc) ==
    IF s = << >> \/ Head(s) \notin Digits THEN acc
    ELSE DigitPrefix(Tail(s), acc * 10 + DigitVal(Head(s)))

\* parseInt(s) of a string without sign or leading blanks; parseInt(undefined) is NaN
ParseInt(s) ==
    IF s = Undefined \/ s = << >> \/ Head(s) \notin Digits THEN NaN
    ELSE DigitPrefix(s, 0)

RECURSIVE SplitColon(_, _, _)
\* s.split(':'), cur being the part under construction and done the finished parts
SplitColon(s, cur, done) ==
    IF s = << >> THEN Append(done, cur)
    ELSE IF Head(s) = ":" THEN SplitColon(Tail(s), << >>, Append(done, cur))
    ELSE SplitColon(Tail(s), Append(cur, Head(s)), done)

Split(s) == SplitColon(s, << >>, << >>)

\* parts[i] of an array, undefined past its end
Part(parts, i) == IF i <= Len(parts) THEN parts[i] ELSE Undefined

\* days from 1970-01-01 to the civil date y-m-d (the MakeDay of ECMAScript)
DaysFromCivil(y, m, d) ==
    LET yy  == IF m <= 2 THEN y - 1 ELSE y
        era == yy \div 400
        yoe == yy - era * 400
        mp  == (m + 9) % 12
        doy == (153 * mp + 2) \div 5 + d - 1
        doe == yoe * 365 + yoe \div 4 - yoe \div 100 + doy
    IN  era * 146097 + doe - 719468

\* /^\d{4}-\d{2}-\d{2}$/
dateRegex(s) ==
    /\ Len(s) = 10
    /\ \A i \in {1, 2, 3, 4, 6, 7, 9, 10} : s[i] \in Digits
    /\ s[5] = "-"
    /\ s[8] = "-"

\* /^([0-1]?[0-9]|2[0-3]):[0-5][0-9]$/
timeRegex(s) ==
    \/ /\ Len(s) = 5
       /\ \/ s[1] \in {"0", "1"} /\ s[2] \in Digits
          \/ s[1] = "2" /\ s[2] \in {"0", "1", "2", "3"}
       /\ s[3] = ":"
       /\ s[4] \in {"0", "1", "2", "3", "4", "5"}
       /\ s[5] \in Digits
    \/ /\ Len(s) = 4
       /\ s[1] \in Digits
       /\ s[2] = ":"
       /\ s[3] \in {"0", "1", "2", "3", "4", "5"}
       /\ s[4] \in Digits

\* day number of a date-only ISO string: month 1..12, day 1..31, a day past the
\* end of the month rolling over into the next; NaN for any other string
IsoDay(s) ==
    IF ~dateRegex(s) THEN NaN
    ELSE LET y == DigitPrefix(SubSeq(s, 1, 4), 0)
             m == DigitPrefix(SubSeq(s, 6, 7), 0)
             d == DigitPrefix(SubSeq(s, 9, 10), 0)
         IN  IF m \in 1..12 /\ d \in 1..31 THEN DaysFromCivil(y, m, 1) + d - 1
             ELSE NaN

\* new Date(date): a date-only string is read as UTC midnight
NewDate(s) == IF IsoDay(s) = NaN THEN NaN ELSE IsoDay(s) * 1440

\* new Date(`${date}T${time}:00`): a date-time without offset is local time, and
\* the part after T must be exactly HH:mm:ss
NewDateTime(date, time, z) ==
    IF IsoDay(date) = NaN \/ Len(time) # 5 \/ ~timeRegex(time) THEN NaN
    ELSE IsoDay(date) * 1440
           + DigitPrefix(SubSeq(time, 1, 2), 0) * 60
           + DigitPrefix(SubSeq(time, 4, 5), 0) - z

\* local calendar day (days since the epoch) of the instant t
LocalDay(t, z) == (t + z) \div 1440

\* today = new Date(); today.setHours(0, 0, 0, 0)
LocalMidnight(t, z) == LocalDay(t, z) * 1440 - z

\* d.setHours(h, m) on the Date d
SetHours(d, h, m, z) ==
    IF d = NaN \/ h = NaN \/ m = NaN THEN NaN
    ELSE LocalDay(d, z) * 1440 + h * 60 + m - z

\* a.toDateString() === b.toDateString()
SameDateString(a, b, z) ==
    IF a = NaN \/ b = NaN THEN a = b ELSE LocalDay(a, z) = LocalDay(b, z)

-----------------------------------------------------------------------------
(* The Appointment schema *)

Services ==
    {"Teeth Cleaning", "Tooth Extraction", "Root Canal", "Dental Checkup",
     "Braces", "Adjust"}

Dentists == {"Dra. Villaflor", "Dr. Smith", "Dr. Cruz", "Dr. Lee", "Dr. Santos"}

Statuses == {"Pending", "Confirmed", "Cancelled", "Completed"}

\* a status filter that lets cancelled appointments through
ActiveWithCancelled == {"Pending", "Confirmed", "Cancelled"}

\* status: { $in: ['Pending', 'Confirmed'] }
Active == {"Pending", "Confirmed"}

\* the validators that save() runs: required strings are non-empty, enums hold
SchemaValid(a) ==
    /\ a.userId # "" /\ a.userName # "" /\ a.userEmail # ""
    /\ a.date # << >> /\ a.time # << >>
    /\ a.service \in Services
    /\ a.dentist \in Dentists
    /\ a.status \in Statuses

\* the conflict query with status: 'Confirmed' for its status filter
SlotTakenConfirmedOnly(S, dentist, date, time) ==
    \E i \in 1..Len(S) :
        /\ S[i].dentist = dentist
        /\ S[i].date = date
        /\ S[i].time = time
        /\ S[i].status = "Confirmed"

\* Appointment.findOne({ dentist, date, time, status: { $in: [...] } }) finds a document
SlotTaken(S, dentist, date, time) ==
    \E i \in 1..Len(S) :
        /\ S[i].dentist = dentist
        /\ S[i].date = date
        /\ S[i].time = time
        /\ S[i].status \in Active

\* the same query with appointmentId: { $ne: appointmentId }
SlotTakenByOther(S, dentist, date, time, appointmentId) ==
    \E i \in 1..Len(S) :
        /\ S[i].dentist = dentist
        /\ S[i].date = date
        /\ S[i].time = time
        /\ S[i].appointmentId # appointmentId
        /\ S[i].status \in Active

\* the lookup by appointmentId alone
FindOwnedAnyUser(S, appointmentId, userId) ==
    IF \E i \in 1..Len(S) : S[i].appointmentId = appointmentId
    THEN CHOOSE i \in 1..Len(S) : S[i].appointmentId = appointmentId
    ELSE 0

\* Appointment.findOne({ appointmentId, userId }): index of the document, 0 if none.
\* An absent userId is sent as null and equals no stored userId.
FindOwned(S, appointmentId, userId) ==
    IF \E i \in 1..Len(S) : S[i].appointmentId = appointmentId /\ S[i].userId = userId
    THEN CHOOSE i \in 1..Len(S) :
             S[i].appointmentId = appointmentId /\ S[i].userId = userId
    ELSE 0

-----------------------------------------------------------------------------
(* POST /book *)

MsgBooked == "Appointment booked successfully"
MsgMissing == "Please provide all required fields"
MsgBadDate == "Invalid date format. Use YYYY-MM-DD"
MsgBadTime == "Invalid time format. Use HH:mm (24-hour)"
MsgSlotTaken == "This time slot is already booked"
MsgHours == "Appointments can only be booked between 8:00 AM and 5:00 PM"
MsgPastDate == "Cannot book appointments for past dates"
MsgPastTime == "Cannot book appointments for past times today"
MsgServerError == "Server error"

\* the checks before the conflict query: "" when they all pass
BookValidation(req) ==
    IF \/ req.userId = "" \/ req.userName = "" \/ req.userEmail = ""
       \/ req.service = "" \/ req.dentist = ""
       \/ req.date = << >> \/ req.time = << >>
    THEN MsgMissing
    ELSE IF ~dateRegex(req.date) THEN MsgBadDate
    ELSE IF ~timeRegex(req.time) THEN MsgBadTime
    ELSE ""

\* the working-hours check without its clause on the minutes of 17
OutsideHoursByHour(time) ==
    LET hour == ParseInt(Part(Split(time), 1))
    IN  hour # NaN /\ (hour < 8 \/ hour > 17)

\* hour < 8 || hour > 17 || (hour === 17 && minute > 0)
OutsideHours(time) ==
    LET hour   == ParseInt(Part(Split(time), 1))
        minute == ParseInt(Part(Split(time), 2))
    IN  \/ hour # NaN /\ hour < 8
        \/ hour # NaN /\ hour > 17
        \/ hour = 17 /\ minute # NaN /\ minute > 0

\* selectedDate < today
IsPastDate(date, t, z) == DateLess(NewDate(date), LocalMidnight(t, z))

\* selectedDate is today and appointmentTime < currentTime
IsPastTimeToday(date, time, t, z) ==
    /\ SameDateString(NewDate(date), LocalMidnight(t, z), z)
    /\ DateLess(NewDateTime(date, time, z), t)

\* the checks after the conflict query with the past-date check put first
BookPolicyDateFirst(req, t, z) ==
    IF IsPastDate(req.date, t, z) THEN MsgPastDate
    ELSE IF OutsideHours(req.time) THEN MsgHours
    ELSE IF IsPastTimeToday(req.date, req.time, t, z) THEN MsgPastTime
    ELSE ""

\* the checks after the conflict query: "" when they all pass
BookPolicy(req, t, z) ==
    IF OutsideHours(req.time) THEN MsgHours
    ELSE IF IsPastDate(req.date, t, z) THEN MsgPastDate
    ELSE IF IsPastTimeToday(req.date, req.time, t, z) THEN MsgPastTime
    ELSE ""

\* new Appointment({ appointmentId: uuidv4(), ..., status: 'Pending' })
NewAppointment(req, id, t) ==
    [appointmentId |-> id,
     userId        |-> req.userId,
     userName      |-> req.userName,
     userEmail     |-> req.userEmail,
     service       |-> req.service,
     dentist       |-> req.dentist,
     date          |-> req.date,
     time          |-> req.time,
     notes         |-> req.notes,
     status        |-> "Pending",
     createdAt     |-> t,
     updatedAt     |-> t]

Response(op, req, status, message, data) ==
    [op |-> op, req |-> req, status |-> status, message |-> message, data |-> data]

NoData == << >>

\* the handler over a store with a unique index on the slot: the insert fails
BookFinishUniqueSlot(req, taken) ==
    LET policy == BookPolicy(req, now, tz)
        doc    == NewAppointment(req, Len(store) + 1, now)
    IN  IF taken
        THEN /\ last' = Response("book", req, 400, MsgSlotTaken, NoData)
             /\ UNCHANGED store
        ELSE IF policy # ""
        THEN /\ last' = Response("book", req, 400, policy, NoData)
             /\ UNCHANGED store
        ELSE IF ~SchemaValid(doc) \/ SlotTaken(store, req.dentist, req.date, req.time)
        THEN /\ last' = Response("book", req, 500, MsgServerError, NoData)
             /\ UNCHANGED store
        ELSE /\ Len(store) < MaxAppts
             /\ store' = Append(store, doc)
             /\ last' = Response("book", req, 201, MsgBooked, doc)

\* the handler from the answer of the conflict query on: taken is that answer
BookFinish(req, taken) ==
    LET policy == BookPolicy(req, now, tz)
        doc    == NewAppointment(req, Len(store) + 1, now)
    IN  IF taken
        THEN /\ last' = Response("book", req, 400, MsgSlotTaken, NoData)
             /\ UNCHANGED store
        ELSE IF policy # ""
        THEN /\ last' = Response("book", req, 400, policy, NoData)
             /\ UNCHANGED store
        ELSE IF ~SchemaValid(doc)
        THEN /\ last' = Response("book", req, 500, MsgServerError, NoData)
             /\ UNCHANGED store
        ELSE /\ Len(store) < MaxAppts
             /\ store' = Append(store, doc)
             /\ last' = Response("book", req, 201, MsgBooked, doc)

\* router.post('/book') run to completion
Book(req) ==
    /\ IF BookValidation(req) # ""
       THEN /\ last' = Response("book", req, 400, BookValidation(req), NoData)
            /\ UNCHANGED store
       ELSE BookFinish(req, SlotTaken(store, req.dentist, req.date, req.time))
    /\ UNCHANGED <<now, tz, inflight>>

-----------------------------------------------------------------------------
(* GET /availability *)

MsgAvailRequired == "Date and dentist are required"

DigitChar(n) ==
    CASE n = 0 -> "0" [] n = 1 -> "1" [] n = 2 -> "2" [] n = 3 -> "3"
      [] n = 4 -> "4" [] n = 5 -> "5" [] n = 6 -> "6" [] n = 7 -> "7"
      [] n = 8 -> "8" [] n = 9 -> "9"

\* `${hour.toString().padStart(2, '0')}:${minute.toString().padStart(2, '0')}`
TimeSlot(hour, minute) ==
    <<DigitChar(hour \div 10), DigitChar(hour % 10), ":",
      DigitChar(minute \div 10), DigitChar(minute % 10)>>

RECURSIVE SlotLoop(_, _, _)
\* the two nested loops, at the iteration (hour, minute) with the slots pushed so far
SlotLoop(hour, minute, slots) ==
    IF hour > 17 THEN slots
    ELSE IF minute >= 60 \/ (hour = 17 /\ minute > 0) THEN SlotLoop(hour + 1, 0, slots)
    ELSE SlotLoop(hour, minute + 30, Append(slots, TimeSlot(hour, minute)))

allSlots == SlotLoop(8, 0, << >>)

\* Appointment.find({ date, dentist, status: { $in: [...] } }), then .map(app => app.time)
BookedTimes(S, date, dentist) ==
    LET hit(i) == S[i].date = date /\ S[i].dentist = dentist /\ S[i].status \in Active
    IN  [k \in 1..Cardinality({i \in 1..Len(S) : hit(i)}) |->
            S[CHOOSE i \in 1..Len(S) :
                  hit(i) /\ Cardinality({j \in 1..i : hit(j)}) = k].time]

\* allSlots.filter(slot => !bookedTimes.includes(slot))
AvailableSlots(bookedTimes) ==
    SelectSeq(allSlots, LAMBDA slot : \A k \in 1..Len(bookedTimes) : bookedTimes[k] # slot)

\* the body of the 200 response
AvailabilityData(S, date, dentist, t, z) ==
    LET bookedTimes == BookedTimes(S, date, dentist)
        isPastDate  == IsPastDate(date, t, z)
    IN  [availableSlots |-> IF isPastDate THEN << >> ELSE AvailableSlots(bookedTimes),
         totalSlots     |-> Len(allSlots),
         bookedSlots    |-> Len(bookedTimes),
         isPastDate     |-> isPastDate]

\* router.get('/availability')
Availability(req) ==
    /\ IF req.date = << >> \/ req.dentist = ""
       THEN last' = Response("availability", req, 400, MsgAvailRequired, NoData)
       ELSE last' = Response("availability", req, 200, "",
                             AvailabilityData(store, req.date, req.dentist, now, tz))
    /\ UNCHANGED <<store, now, tz, inflight>>

-----------------------------------------------------------------------------
(* PUT /cancel/:appointmentId *)

MsgUserRequired == "User ID is required"
MsgCancelNotFound == "Appointment not found or you do not have permission to cancel it"
MsgTooLate == "Appointments can only be cancelled at least 24 hours in advance"
MsgCancelled == "Appointment cancelled successfully"

\* appointmentDate after setHours, from the stored date and time
CancelInstant(a, z) ==
    SetHours(NewDate(a.date),
             ParseInt(Part(Split(a.time), 1)),
             ParseInt(Part(Split(a.time), 2)), z)

\* hoursDifference < 24, in minutes; false when appointmentDate is invalid
TooLateToCancel(a, t, z) ==
    CancelInstant(a, z) # NaN /\ CancelInstant(a, z) - t < 24 * 60

\* router.put('/cancel/:appointmentId')
Cancel(req) ==
    /\ LET i == FindOwned(store, req.appointmentId, req.userId)
       IN  IF req.userId = ""
           THEN /\ last' = Response("cancel", req, 400, MsgUserRequired, NoData)
                /\ UNCHANGED store
           ELSE IF i = 0
           THEN /\ last' = Response("cancel", req, 404, MsgCancelNotFound, NoData)
                /\ UNCHANGED store
           ELSE IF TooLateToCancel(store[i], now, tz)
           THEN /\ last' = Response("cancel", req, 400, MsgTooLate, NoData)
                /\ UNCHANGED store
           ELSE /\ store' = [store EXCEPT ![i].status = "Cancelled", ![i].updatedAt = now]
                /\ last' = Response("cancel", req, 200, MsgCancelled, NoData)
    /\ UNCHANGED <<now, tz, inflight>>

-----------------------------------------------------------------------------
(* PUT /:appointmentId *)

MsgNotFound == "Appointment not found"
MsgNewSlotTaken == "New time slot is already booked"
MsgUpdated == "Appointment updated successfully"

\* the conflict query run on every update
SlotChangesAlways(req, a) == TRUE

\* the condition under which the update runs the conflict query
SlotChanges(req, a) ==
    \/ req.date # << >> /\ req.date # a.date
    \/ req.time # << >> /\ req.time # a.time
    \/ req.dentist # "" /\ req.dentist # a.dentist

\* the conflict query of the update finds a document
UpdateConflict(S, req, a) ==
    LET checkDate    == IF req.date # << >> THEN req.date ELSE a.date
        checkTime    == IF req.time # << >> THEN req.time ELSE a.time
        checkDentist == IF req.dentist # "" THEN req.dentist ELSE a.dentist
    IN  SlotTakenByOther(S, checkDentist, checkDate, checkTime, req.appointmentId)

\* the field assignments of an update that also puts the status back to Pending
UpdatedReopens(a, req, t) ==
    [a EXCEPT !.date      = IF req.date # << >> THEN req.date ELSE @,
              !.time      = IF req.time # << >> THEN req.time ELSE @,
              !.service   = IF req.service # "" THEN req.service ELSE @,
              !.dentist   = IF req.dentist # "" THEN req.dentist ELSE @,
              !.notes     = IF req.notes # NoNotes THEN req.notes ELSE @,
              !.status    = "Pending",
              !.updatedAt = t]

\* the field assignments of the update
Updated(a, req, t) ==
    [a EXCEPT !.date      = IF req.date # << >> THEN req.date ELSE @,
              !.time      = IF req.time # << >> THEN req.time ELSE @,
              !.service   = IF req.service # "" THEN req.service ELSE @,
              !.dentist   = IF req.dentist # "" THEN req.dentist ELSE @,
              !.notes     = IF req.notes # NoNotes THEN req.notes ELSE @,
              !.updatedAt = t]

\* router.put('/:appointmentId')
Update(req) ==
    /\ LET i == FindOwned(store, req.appointmentId, req.userId)
       IN  IF i = 0
           THEN /\ last' = Response("update", req, 404, MsgNotFound, NoData)
                /\ UNCHANGED store
           ELSE IF SlotChanges(req, store[i]) /\ UpdateConflict(store, req, store[i])
           THEN /\ last' = Response("update", req, 400, MsgNewSlotTaken, NoData)
                /\ UNCHANGED store
           ELSE IF ~SchemaValid(Updated(store[i], req, now))
           THEN /\ last' = Response("update", req, 500, MsgServerError, NoData)
                /\ UNCHANGED store
           ELSE /\ store' = [store EXCEPT ![i] = Updated(store[i], req, now)]
                /\ last' = Response("update", req, 200, MsgUpdated,
                                    Updated(store[i], req, now))
    /\ UNCHANGED <<now, tz, inflight>>

-----------------------------------------------------------------------------
(* Request values *)

\* "2030-01-dd"
Jan2030(d1, d2) == <<"2", "0", "3", "0", "-", "0", "1", "-", d1, d2>>

D14 == Jan2030("1", "4")
D15 == Jan2030("1", "5")
D16 == Jan2030("1", "6")

\* a date that is no date
DSoon == <<"s", "o", "o", "n">>

T0730 == <<"0", "7", ":", "3", "0">>
T0900 == <<"0", "9", ":", "0", "0">>
T0915 == <<"0", "9", ":", "1", "5">>
T900  == <<"9", ":", "0", "0">>
T1700 == <<"1", "7", ":", "0", "0">>
T1730 == <<"1", "7", ":", "3", "0">>
T1800 == <<"1", "8", ":", "0", "0">>
T2500 == <<"2", "5", ":", "0", "0">>

\* local wall-clock minute h:m of January dd, 2030
Wall(dd, h, m) == DaysFromCivil(2030, 1, dd) * 1440 + h * 60 + m

\* the server's offsets east of UTC, in minutes
TzOffsets == {0 - 300, 600}

\* the local wall-clock times at which the requests of a run arrive
Clock == {Wall(15, 9, 0), Wall(15, 9, 1)}

BookRequest(userId, userName, userEmail, service, dentist, date, time, notes) ==
    [userId |-> userId, userName |-> userName, userEmail |-> userEmail,
     service |-> service, dentist |-> dentist, date |-> date, time |-> time,
     notes |-> notes]

UpdateRequest(appointmentId, userId, date, time, service, dentist, notes) ==
    [appointmentId |-> appointmentId, userId |-> userId, date |-> date, time |-> time,
     service |-> service, dentist |-> dentist, notes |-> notes]

CancelRequest(appointmentId, userId) == [appointmentId |-> appointmentId, userId |-> userId]

\* appointment ids that requests name: the stored ones and one that is unknown
RequestIds == 1..(MaxAppts + 1)

\* The requests that a run is made of, any number of them in any order; after one
\* of them has been answered the next request arrives.
RunBook ==
    {BookRequest("u1", "Ann", "ann@example.com", "Braces", "Dr. Lee", date, T0900, "") :
        date \in {D15, D16}}

RunUpdate ==
    {UpdateRequest(id, "u1", b[1], b[2], "", "", NoNotes) :
        id \in 1..MaxAppts, b \in {<<D15, << >>>>, <<<< >>, T1730>>}}

RunCancel == {CancelRequest(id, "u1") : id \in 1..MaxAppts}

\* All the requests explored.  One that is not of the Run sets above is explored
\* as the last request of a run only: no request follows it.
BookRequests ==
    {BookRequest("u1", "Ann", "ann@example.com", "Braces", "Dr. Lee", date, time, "") :
        date \in {<< >>, DSoon, D14, D15, D16},
        time \in {<< >>, T2500, T0730, T0900, T0915, T900, T1700, T1730, T1800}}
    \cup
    {BookRequest(who[1], who[2], who[3], sd[1], sd[2], date, time, "see notes") :
        who \in {<<"", "Ann", "ann@example.com">>, <<"u1", "", "ann@example.com">>,
                 <<"u1", "Ann", "">>, <<"u2", "Bo", "bo@example.com">>},
        sd \in {<<"Braces", "Dr. Lee">>, <<"", "Dr. Lee">>, <<"Braces", "">>},
        date \in {DSoon, D15, D16},
        time \in {T2500, T0900, T1730}}
    \cup
    {BookRequest("u1", "Ann", "ann@example.com", service, dentist, date, time, "") :
        service \in {"Whitening", "Root Canal"},
        dentist \in {"Dr. Smith", "Dr. Who"},
        date \in {D15, D16},
        time \in {T0900, T1730}}

\* the request bodies of an update: nothing, one field, or a new slot
UpdateBodies ==
    {<<<< >>, << >>, "", "", NoNotes>>,
     <<D15, << >>, "", "", NoNotes>>,
     <<DSoon, << >>, "", "", NoNotes>>,
     <<<< >>, T1730, "", "", NoNotes>>,
     <<<< >>, << >>, "Adjust", "", NoNotes>>,
     <<<< >>, << >>, "Whitening", "", NoNotes>>,
     <<<< >>, << >>, "", "Dr. Smith", NoNotes>>,
     <<<< >>, << >>, "", "", "after lunch">>,
     <<D16, T0900, "Root Canal", "Dr. Lee", "x-ray first">>}

UpdateRequests ==
    {UpdateRequest(id, u, b[1], b[2], b[3], b[4], b[5]) :
        id \in RequestIds, u \in {"", "u1", "u2"}, b \in UpdateBodies}

CancelRequests == {CancelRequest(id, u) : id \in RequestIds, u \in {"", "u1", "u2"}}

AvailabilityRequests ==
    {[date |-> date, dentist |-> d] :
        date \in {<< >>, D14, D15, D16}, d \in {"", "Dr. Lee", "Dr. Smith"}}

-----------------------------------------------------------------------------
(* The service, one request handled at a time *)

\* no request is being answered
NoResponse == Response("none", << >>, 0, "", NoData)

Idle == last = NoResponse

\* res.json(...) has been sent for a request of the run: the next one can arrive
Respond ==
    /\ last # NoResponse
    /\ \/ last.op = "book" /\ last.req \in RunBook
       \/ last.op = "update" /\ last.req \in RunUpdate
       \/ last.op = "cancel" /\ last.req \in RunCancel
    /\ last' = NoResponse
    /\ UNCHANGED <<store, now, tz, inflight>>

\* time passes between two requests: the clock moves to a later instant of Clock
Tick ==
    /\ \E w \in Clock : w - tz > now /\ now' = w - tz
    /\ UNCHANGED <<store, tz, last, inflight>>

Init ==
    /\ store = << >>
    /\ tz \in TzOffsets
    /\ now \in {w - tz : w \in Clock}
    /\ last = NoResponse
    /\ inflight = {}

Next ==
    \/ Idle /\ \E req \in BookRequests : Book(req)
    \/ Idle /\ \E req \in UpdateRequests : Update(req)
    \/ Idle /\ \E req \in CancelRequests : Cancel(req)
    \/ Idle /\ \E req \in AvailabilityRequests : Availability(req)
    \/ Respond
    \/ Idle /\ Tick

Spec == Init /\ [][Next]_vars

-----------------------------------------------------------------------------
(* POST /book, interleaved at its await points *)

\* two users after the same slots
RaceRequests ==
    {BookRequest(who[1], who[2], who[3], "Braces", "Dr. Lee", D16, time, "") :
        who \in {<<"u1", "Ann", "ann@example.com">>, <<"u2", "Bo", "bo@example.com">>},
        time \in {<< >>, T0900, T1700, T1730}}

\* up to `await Appointment.findOne(...)`: the query is answered from the store as it
\* is now, and the handler is suspended until the event loop resumes it
BookQuery(req) ==
    /\ Cardinality(inflight) < MaxInflight
    /\ \A p \in inflight : p.req # req
    /\ IF BookValidation(req) # ""
       THEN /\ last' = Response("book", req, 400, BookValidation(req), NoData)
            /\ UNCHANGED inflight
       ELSE /\ inflight' = inflight \cup
                   {[req |-> req,
                     taken |-> SlotTaken(store, req.dentist, req.date, req.time)]}
            /\ UNCHANGED last
    /\ UNCHANGED <<store, now, tz>>

\* from the answer of the query to the end of `await appointment.save()`
BookSave(p) ==
    /\ p \in inflight
    /\ BookFinish(p.req, p.taken)
    /\ inflight' = inflight \ {p}
    /\ UNCHANGED <<now, tz>>

NextRace ==
    \/ \E req \in RaceRequests : BookQuery(req)
    \/ \E p \in inflight : BookSave(p)
    \/ Tick

SpecRace == Init /\ [][NextRace]_vars

-----------------------------------------------------------------------------
(* Properties *)

\* the step is a request of the given kind handled to completion
BookStep == Idle /\ last'.op = "book"
UpdateStep == Idle /\ last'.op = "update"
CancelStep == Idle /\ last'.op = "cancel"
AvailabilityStep == Idle /\ last'.op = "availability"

SameSlot(a, b) == a.dentist = b.dentist /\ a.date = b.date /\ a.time = b.time

\* two active appointments of S hold one slot
DoubleBooked(S) ==
    \E i, j \in 1..Len(S) :
        i < j /\ S[i].status \in Active /\ S[j].status \in Active /\ SameSlot(S[i], S[j])

\* C1: with requests handled one at a time, no two stored appointments with
\* status Pending or Confirmed have the same dentist, date and time.
C1_NoDoubleBooking == ~DoubleBooked(store)

\* a second request for a held slot has just been turned down, both slots of the
\* store being held by active appointments
C1_Witness ==
    /\ Len(store) = 2
    /\ \A i \in 1..2 : store[i].status \in Active
    /\ last.status = 400
    /\ last.message \in {MsgSlotTaken, MsgNewSlotTaken}

\* C2: a booking whose conflict query found the slot free is saved as Pending
\* whatever has been saved since: the store refuses no insert on account of the slot.
C2_SaveIgnoresLaterBookings ==
    [][\A p \in inflight :
          (/\ p \notin inflight'
           /\ ~p.taken
           /\ BookPolicy(p.req, now, tz) = ""
           /\ SlotTaken(store, p.req.dentist, p.req.date, p.req.time))
          => /\ Len(store') = Len(store) + 1
             /\ store'[Len(store')].status = "Pending"
             /\ SameSlot(store'[Len(store')], p.req)
             /\ DoubleBooked(store')]_vars

\* both requests ran the conflict query before either saved, and both are stored
C2_Witness ==
    /\ DoubleBooked(store)
    /\ inflight = {}
    /\ \A i \in 1..Len(store) : store[i].status = "Pending"
    /\ \E i, j \in 1..Len(store) : store[i].userId = "u1" /\ store[j].userId = "u2"

-----------------------------------------------------------------------------
(* The rules of a booking, each taken alone *)

RuleMissing(req) ==
    \/ req.userId = "" \/ req.userName = "" \/ req.userEmail = ""
    \/ req.service = "" \/ req.dentist = ""
    \/ req.date = << >> \/ req.time = << >>

RuleMalformed(req) == ~dateRegex(req.date) \/ ~timeRegex(req.time)

\* the rules, in the order of the list, that req fails in the state (S, t, z)
FailingRules(req, S, t, z) ==
    {k \in 1..6 :
        \/ k = 1 /\ RuleMissing(req)
        \/ k = 2 /\ RuleMalformed(req)
        \/ k = 3 /\ SlotTaken(S, req.dentist, req.date, req.time)
        \/ k = 4 /\ OutsideHours(req.time)
        \/ k = 5 /\ IsPastDate(req.date, t, z)
        \/ k = 6 /\ IsPastTimeToday(req.date, req.time, t, z)}

\* the messages that report the failure of rule k
RuleMessages(k) ==
    CASE k = 1 -> {MsgMissing}
      [] k = 2 -> {MsgBadDate, MsgBadTime}
      [] k = 3 -> {MsgSlotTaken}
      [] k = 4 -> {MsgHours}
      [] k = 5 -> {MsgPastDate}
      [] k = 6 -> {MsgPastTime}

Least(K) == CHOOSE k \in K : \A j \in K : k <= j

\* C3: a booking request that fails more than one rule is answered 400 with the
\* reason of the earliest rule it fails (missing field, malformed date or time,
\* slot taken, outside hours, past date, past time today) and stores nothing.
C3_EarliestRuleReported ==
    [][BookStep /\ Cardinality(FailingRules(last'.req, store, now, tz)) >= 2
         => /\ last'.status = 400
            /\ last'.message \in RuleMessages(Least(FailingRules(last'.req, store, now, tz)))
            /\ store' = store]_vars

\* a request for a held slot outside operating hours was answered "slot taken"
C3_Witness ==
    /\ last.op = "book"
    /\ {3, 4} \subseteq FailingRules(last.req, store, now, tz)
    /\ last.status = 400
    /\ last.message = MsgSlotTaken

\* the hour of a time string is outside [8,17], or is 17 with a minute above 0
HourOutside(time) ==
    LET hour   == ParseInt(Part(Split(time), 1))
        minute == ParseInt(Part(Split(time), 2))
    IN  hour # NaN /\ (hour < 8 \/ hour > 17 \/ (hour = 17 /\ minute # NaN /\ minute > 0))

\* C4 as stated: every booking candidate (a request with all its fields and a
\* well-formed date) whose hour is outside operating hours is rejected with the
\* outside-operating-hours reason.
C4_Original ==
    [][BookStep /\ ~RuleMissing(last'.req) /\ dateRegex(last'.req.date)
              /\ HourOutside(last'.req.time)
         => last'.status = 400 /\ last'.message = MsgHours]_vars

\* C4 as amended: a booking whose hour is outside operating hours is rejected (400,
\* nothing stored); the reason is the outside-operating-hours one whenever the
\* request has all its fields, a well-formed date and time, and a slot that no
\* Pending or Confirmed appointment holds, whatever its date and dentist.
C4_OutsideHoursRejected ==
    [][BookStep /\ HourOutside(last'.req.time)
         => /\ last'.status = 400
            /\ store' = store
            /\ (FailingRules(last'.req, store, now, tz) \cap {1, 2, 3} = {}
                  => last'.message = MsgHours)]_vars

\* "17:30" on a past date was turned down for its hour
C4_Witness ==
    /\ last.op = "book"
    /\ last.req.time = T1730
    /\ last.req.date = D14
    /\ last.message = MsgHours

\* the candidate's date is strictly earlier than the server's local calendar date
BeforeToday(date, t, z) == IsoDay(date) < LocalDay(t, z)

\* C5: a booking that passes the field, format, conflict and operating-hours rules
\* is rejected as a past date exactly when its date is strictly earlier than the
\* server's local calendar date, at every UTC offset.
C5_PastDateExact ==
    [][BookStep /\ FailingRules(last'.req, store, now, tz) \cap {1, 2, 3, 4} = {}
         => (last'.message = MsgPastDate <=> BeforeToday(last'.req.date, now, tz))]_vars

\* the local instant that a date and a time form, as a UTC minute
LocalInstant(date, time, z) ==
    IsoDay(date) * 1440 + ParseInt(Part(Split(time), 1)) * 60
        + ParseInt(Part(Split(time), 2)) - z

\* C6: a booking dated today that passes all earlier rules is rejected as a past
\* time exactly when the instant of its date and time is earlier than now, for
\* every time string the format rule accepts.
C6_PastTimeExact ==
    [][(/\ BookStep
        /\ FailingRules(last'.req, store, now, tz) \cap {1, 2, 3, 4, 5} = {}
        /\ IsoDay(last'.req.date) = LocalDay(now, tz))
         => (last'.message = MsgPastTime
               <=> LocalInstant(last'.req.date, last'.req.time, tz) < now)]_vars

\* the 19 slots 08:00, 08:30, ..., 16:30, 17:00
Grid == [k \in 1..19 |-> TimeSlot(8 + (k - 1) \div 2, 30 * ((k - 1) % 2))]

\* C7: availability answers totalSlots = 19, bookedSlots = the number of active
\* appointments of the dentist and date, isPastDate exactly when the date is before
\* today, availableSlots = the grid minus the booked times (empty on a past date),
\* and changes no stored appointment.
C7_Availability ==
    [][AvailabilityStep /\ last'.status = 200
         => LET req    == last'.req
                booked == {i \in 1..Len(store) :
                              /\ store[i].dentist = req.dentist
                              /\ store[i].date = req.date
                              /\ store[i].status \in Active}
                past   == BeforeToday(req.date, now, tz)
            IN  /\ last'.data.totalSlots = 19
                /\ last'.data.bookedSlots = Cardinality(booked)
                /\ last'.data.isPastDate = past
                /\ last'.data.availableSlots =
                       IF past THEN << >>
                       ELSE SelectSeq(Grid, LAMBDA slot :
                                \A i \in booked : store[i].time # slot)
                /\ store' = store]_vars

\* C8: the owner's cancel request is accepted exactly when the local instant of
\* the appointment is at least 24 hours after now, at every UTC offset; accepted,
\* the status becomes Cancelled; rejected, the answer is 400 and nothing changes.
C8_CancelWindow ==
    [][(/\ CancelStep
        /\ last'.req.appointmentId \in 1..Len(store)
        /\ last'.req.userId = store[last'.req.appointmentId].userId
        /\ IsoDay(store[last'.req.appointmentId].date) # NaN)
         => LET a == store[last'.req.appointmentId]
            IN  IF LocalInstant(a.date, a.time, tz) - now >= 24 * 60
                THEN /\ last'.status = 200
                     /\ store'[a.appointmentId].status = "Cancelled"
                ELSE /\ last'.status = 400
                     /\ store' = store]_vars

\* the request names no stored appointment, or one that another user owns
NotOwner(req, S) ==
    \/ req.appointmentId \notin 1..Len(S)
    \/ S[req.appointmentId].userId # req.userId

\* C9 as stated: a cancel or update request for an unknown appointment or for
\* another user's appointment is answered 404 and changes nothing.
C9_Original ==
    [][(CancelStep \/ UpdateStep) /\ NotOwner(last'.req, store)
         => last'.status = 404 /\ store' = store]_vars

\* C9 as amended: such a request changes nothing and is answered 404, except that
\* a cancel request carrying no userId is answered 400.
C9_NotOwnerRefused ==
    [][(CancelStep \/ UpdateStep) /\ NotOwner(last'.req, store)
         => /\ store' = store
            /\ last'.status =
                  IF last'.op = "cancel" /\ last'.req.userId = "" THEN 400 ELSE 404]_vars

\* another user's attempt on a stored appointment was answered 404
C9_Witness ==
    /\ last.op \in {"cancel", "update"}
    /\ last.req.appointmentId \in 1..Len(store)
    /\ last.req.userId = "u2"
    /\ store[last.req.appointmentId].userId = "u1"
    /\ last.status = 404

\* C10: a stored appointment is never removed and keeps its appointmentId, userId,
\* userName, userEmail and createdAt; an update changes only date, time, service,
\* dentist, notes and updatedAt; a cancellation changes only status and updatedAt.
C10_Frame ==
    [][/\ Len(store') >= Len(store)
       /\ \A i \in 1..Len(store) :
             /\ store'[i].appointmentId = store[i].appointmentId
             /\ store'[i].userId = store[i].userId
             /\ store'[i].userName = store[i].userName
             /\ store'[i].userEmail = store[i].userEmail
             /\ store'[i].createdAt = store[i].createdAt
             /\ UpdateStep => store'[i].status = store[i].status
             /\ CancelStep =>
                   store'[i] = [store[i] EXCEPT !.status = store'[i].status,
                                                !.updatedAt = store'[i].updatedAt]
       /\ UpdateStep \/ CancelStep => Len(store') = Len(store)]_vars

\* an appointment that an update had moved has been cancelled
C10_Witness ==
    /\ last.op = "cancel"
    /\ last.status = 200
    /\ store[last.req.appointmentId].status = "Cancelled"
    /\ store[last.req.appointmentId].time = T1730
    /\ store[last.req.appointmentId].updatedAt > store[last.req.appointmentId].createdAt

-----------------------------------------------------------------------------
(* The stored slots *)

\* the date and the time pass the format checks and the working-hours check of a booking
WellFormedSlot(date, time) ==
    /\ dateRegex(date)
    /\ timeRegex(time)
    /\ ~OutsideHours(time)

\* C11: after any sequence of book, update and cancel requests, every stored
\* appointment with status Pending or Confirmed has a date in YYYY-MM-DD form and
\* a time in HH:mm form within operating hours: an update is committed only when
\* its resulting date and time pass the format and operating-hours rules of a booking.
C11_ActiveWellFormed ==
    \A i \in 1..Len(store) :
        store[i].status \in Active => WellFormedSlot(store[i].date, store[i].time)

\* the statuses under which, by the data model, an appointment occupies its slot
Holding == {"Pending", "Confirmed"}

\* an appointment of S other than the one named id occupies the slot of r
OtherHolds(S, r, id) ==
    \E j \in 1..Len(S) :
        /\ S[j].appointmentId # id
        /\ S[j].status \in Holding
        /\ SameSlot(S[j], r)

\* the update has been turned down as slot-taken
UpdateRefused == last'.status = 400 /\ last'.message = MsgNewSlotTaken

\* C12 as stated: an update of an appointment of the requester is rejected as
\* slot-taken (400) exactly when another Pending or Confirmed appointment holds
\* the resulting dentist, date and time (absent fields keeping their stored
\* values), and a rejected update changes nothing of the appointment.
C12_Original ==
    [][UpdateStep /\ ~NotOwner(last'.req, store)
         => LET a == store[last'.req.appointmentId]
                r == Updated(a, last'.req, now)
            IN  /\ UpdateRefused <=> OtherHolds(store, r, a.appointmentId)
                /\ UpdateRefused => store' = store]_vars

\* C12 as amended: the update is rejected as slot-taken exactly when it moves the
\* appointment to another dentist, date or time and another Pending or Confirmed
\* appointment holds the resulting slot; an update that leaves the slot where it
\* is runs no conflict check; a rejected update changes nothing.
C12_UpdateConflictExact ==
    [][UpdateStep /\ ~NotOwner(last'.req, store)
         => LET a == store[last'.req.appointmentId]
                r == Updated(a, last'.req, now)
            IN  /\ UpdateRefused <=>
                       ~SameSlot(r, a) /\ OtherHolds(store, r, a.appointmentId)
                /\ UpdateRefused => store' = store]_vars

\* an update moving an appointment onto a slot that another active appointment
\* holds was rejected, and the appointment is where it was
C12_Witness ==
    /\ last.op = "update"
    /\ last.status = 400
    /\ last.message = MsgNewSlotTaken
    /\ last.req.appointmentId \in 1..Len(store)
    /\ LET a == store[last.req.appointmentId]
       IN  /\ ~SameSlot(Updated(a, last.req, now), a)
           /\ OtherHolds(store, Updated(a, last.req, now), a.appointmentId)

\* a cancelled appointment of S other than the one named id sits on the slot of r
CancelledOn(S, r, id) ==
    \E j \in 1..Len(S) :
        /\ S[j].appointmentId # id
        /\ S[j].status = "Cancelled"
        /\ SameSlot(S[j], r)

\* C13: a cancelled appointment never again blocks its slot and never returns to
\* Pending or Confirmed.  In every step: a Cancelled appointment stays Cancelled;
\* a booking or an update is turned down as slot-taken only if a Pending or
\* Confirmed appointment (another one, for an update) holds the slot; a booking
\* for the slot of a cancelled appointment that the handler's other checks let
\* through and that meets no Pending or Confirmed appointment there is stored as
\* Pending with 201; an update onto such a slot is committed with 200.
C13_CancelledNeverBlocks ==
    [][/\ \A i \in 1..Len(store) :
              store[i].status = "Cancelled" => store'[i].status = "Cancelled"
       /\ BookStep =>
              LET req == last'.req
              IN  /\ last'.message = MsgSlotTaken => OtherHolds(store, req, 0)
                  /\ (/\ FailingRules(req, store, now, tz) \cap {1, 2, 4, 5, 6} = {}
                      /\ SchemaValid(NewAppointment(req, 0, now))
                      /\ CancelledOn(store, req, 0)
                      /\ ~OtherHolds(store, req, 0))
                     => /\ last'.status = 201
                        /\ Len(store') = Len(store) + 1
                        /\ store'[Len(store')].status = "Pending"
                        /\ SameSlot(store'[Len(store')], req)
       /\ UpdateStep /\ ~NotOwner(last'.req, store) =>
              LET a == store[last'.req.appointmentId]
                  r == Updated(a, last'.req, now)
              IN  /\ UpdateRefused => OtherHolds(store, r, a.appointmentId)
                  /\ (/\ SchemaValid(r)
                      /\ CancelledOn(store, r, a.appointmentId)
                      /\ ~OtherHolds(store, r, a.appointmentId))
                     => /\ last'.status = 200
                        /\ store'[a.appointmentId] = r]_vars

\* the slot of a cancelled appointment has been booked again
C13_Witness ==
    /\ last.op = "book"
    /\ last.status = 201
    /\ CancelledOn(store, last.data, last.data.appointmentId)
    /\ store[last.data.appointmentId].status = "Pending"

\* C14: every time string that a booking accepts is one of the 19 slots of the
\* availability grid, so that once the booking is stored the availability of its
\* dentist and date, when the date is not past, has as many availableSlots as
\* totalSlots minus bookedSlots.
C14_BookedOnGrid ==
    [][BookStep /\ last'.status = 201
         => LET req == last'.req
                d   == AvailabilityData(store', req.date, req.dentist, now, tz)
            IN  /\ \E k \in 1..19 : Grid[k] = req.time
                /\ ~d.isPastDate =>
                       Len(d.availableSlots) = d.totalSlots - d.bookedSlots]_vars

====
